---- MODULE Spec2Model ----
(***************************************************************************)
(* Model of src/src/analyzer.py: the command-line pipeline                 *)
(*   usage check -> banner -> FeedbackAnalyzer() -> read_csv ->            *)
(*   _prepare_feedback -> _call_claude_api -> _extract_signals -> report.  *)
(*                                                                         *)
(* Scores are floats with one decimal, modelled as integers in tenths      *)
(* (8.5 is 85).  A missing cell is NaN.  Means are exact rationals         *)
(* [num, den] (num in tenths); den = 0 stands for NaN.  Strings are        *)
(* tuples of their pieces.                                                 *)
(***************************************************************************)
EXTENDS Integers, Sequences, FiniteSets, TLC

VARIABLES pc, argv, env_key, clientValidatesAt, csv_path, client, df,
          feedback_text, apiCalls, sentPayload, analysis, results, stdout,
          error, errorAt, exitStatus

vars == <<pc, argv, env_key, clientValidatesAt, csv_path, client, df,
          feedback_text, apiCalls, sentPayload, analysis, results, stdout,
          error, errorAt, exitStatus>>

----------------------------------------------------------------------------
(* Bounds *)

MaxRows == 2
MaxStageRows == 4

----------------------------------------------------------------------------
(* Values *)

NoKey == "None"
NaNScore == 0 - 1
NaNStage == "NaN"
Threshold == 70
TopN == 3

RequiredColumns == {"checkout_stage", "feedback_text", "signal_score"}

Scores == {NaNScore, 30, 70, 85}
Stages == {NaNStage, "cart", "shipping"}
StageOnlyStages == {NaNStage, "cart", "shipping", "payment", "review"}
StageOnlyScores == {30, 85}

Header == <<"High-priority customer feedback:", "\n\n">>

Min(a, b) == IF a < b THEN a ELSE b

\* Free-form text of the i-th row; the program never inspects it.
TextOf(i) == <<"text", i>>

MkRows(stageSeq, scoreSeq) ==
    [i \in 1..Len(stageSeq) |->
        [checkout_stage |-> stageSeq[i],
         feedback_text  |-> TextOf(i),
         signal_score   |-> scoreSeq[i]]]

NoDf == [loaded |-> FALSE, columns |-> {}, rows |-> <<>>]
NoResults == [set |-> FALSE, summary |-> <<>>, high_priority_count |-> 0,
              total_analyzed |-> 0, top_stages |-> <<>>,
              avg_signal_score |-> [num |-> 0, den |-> 0]]

----------------------------------------------------------------------------
(* Pure helpers: pandas operations as the code uses them *)

AboveThreshold_Inclusive(s) == s # NaNScore /\ s >= Threshold

\* df['signal_score'] > 7.0 for one cell: a comparison with NaN is False.
AboveThreshold(s) == s # NaNScore /\ s > Threshold

\* df[df['signal_score'] > 7.0]: boolean-mask selection keeps row order.
RECURSIVE HighSignal(_)
HighSignal(rows) ==
    IF rows = <<>> THEN <<>>
    ELSE IF AboveThreshold(Head(rows).signal_score)
         THEN <<Head(rows)>> \o HighSignal(Tail(rows))
         ELSE HighSignal(Tail(rows))

\* f"{row['signal_score']}" of a float: shortest repr, e.g. 85 -> "8.5".
RenderScore(s) == <<s \div 10, ".", s % 10>>

\* f"{row['checkout_stage']}": a missing cell prints as nan.
RenderStage(st) == IF st = NaNStage THEN "nan" ELSE st

FormatRow(row) ==
    <<"[", RenderStage(row.checkout_stage), "] ", row.feedback_text,
      " (score: ", RenderScore(row.signal_score), ")", "\n">>

\* the loop of _prepare_feedback: formatted += line, for each selected row
RECURSIVE FormatLoop(_, _)
FormatLoop(formatted, high) ==
    IF high = <<>> THEN formatted
    ELSE FormatLoop(Append(formatted, FormatRow(Head(high))), Tail(high))

PrepareFeedbackText(rows) == FormatLoop(<<Header>>, HighSignal(rows))

\* Series.mean(): skipna=True, NaN when nothing is left.
RECURSIVE SumScores(_)
SumScores(rows) ==
    IF rows = <<>> THEN 0
    ELSE (IF Head(rows).signal_score = NaNScore THEN 0
          ELSE Head(rows).signal_score) + SumScores(Tail(rows))

RECURSIVE CountScores(_)
CountScores(rows) ==
    IF rows = <<>> THEN 0
    ELSE (IF Head(rows).signal_score = NaNScore THEN 0 ELSE 1)
         + CountScores(Tail(rows))

MeanScore_HighOnly(rows) ==
    IF HighSignal(rows) = <<>> THEN [num |-> 0, den |-> 0]
    ELSE [num |-> SumScores(HighSignal(rows)), den |-> Len(HighSignal(rows))]

MeanScore(rows) ==
    IF CountScores(rows) = 0 THEN [num |-> 0, den |-> 0]
    ELSE [num |-> SumScores(rows), den |-> CountScores(rows)]

\* value_counts(): count table keyed in first-encountered order, NaN dropped
RECURSIVE CountTable(_, _)
CountTable(table, rows) ==
    IF rows = <<>> THEN table
    ELSE LET st == Head(rows).checkout_stage IN
         IF st = NaNStage THEN CountTable(table, Tail(rows))
         ELSE IF \E i \in 1..Len(table) : table[i].stage = st
              THEN CountTable(
                     [i \in 1..Len(table) |->
                        IF table[i].stage = st
                        THEN [stage |-> st, count |-> table[i].count + 1]
                        ELSE table[i]],
                     Tail(rows))
              ELSE CountTable(Append(table, [stage |-> st, count |-> 1]),
                              Tail(rows))

\* insertion before the entries with an equal count
RECURSIVE InsertDesc_TiesReversed(_, _)
InsertDesc_TiesReversed(e, sorted) ==
    IF sorted = <<>> THEN <<e>>
    ELSE IF Head(sorted).count > e.count
         THEN <<Head(sorted)>> \o InsertDesc_TiesReversed(e, Tail(sorted))
         ELSE <<e>> \o sorted

\* insertion into a descending list, after the entries with an equal count:
\* the count table is in first-encountered order, so equal counts keep it
RECURSIVE InsertDesc(_, _)
InsertDesc(e, sorted) ==
    IF sorted = <<>> THEN <<e>>
    ELSE IF Head(sorted).count >= e.count
         THEN <<Head(sorted)>> \o InsertDesc(e, Tail(sorted))
         ELSE <<e>> \o sorted

\* sort_values(ascending=False) of the count table
RECURSIVE SortDesc(_, _)
SortDesc(sorted, table) ==
    IF table = <<>> THEN sorted
    ELSE SortDesc(InsertDesc(Head(table), sorted), Tail(table))

ValueCounts(rows) == SortDesc(<<>>, CountTable(<<>>, rows))

\* .head(3).to_dict(): an insertion-ordered mapping stage -> count
TopStages(rows) ==
    LET vc == ValueCounts(rows) IN SubSeq(vc, 1, Min(TopN, Len(vc)))

RECURSIVE HighPriorityCount_Inclusive(_)
HighPriorityCount_Inclusive(rows) ==
    IF rows = <<>> THEN 0
    ELSE (IF AboveThreshold_Inclusive(Head(rows).signal_score) THEN 1 ELSE 0)
         + HighPriorityCount_Inclusive(Tail(rows))

\* len(df[df['signal_score'] > 7.0])
HighPriorityCount(rows) == Len(HighSignal(rows))

TotalAnalyzed_BelowOnly(rows) == Len(rows) - Len(HighSignal(rows))

\* len(df)
TotalAnalyzed(rows) == Len(rows)

\* f"{x:.2f}": hundredths, nearest (exact ties to even); "nan" for NaN
Fmt2(avg) ==
    IF avg.den = 0 THEN <<"nan">>
    ELSE LET n == avg.num * 10
             q == n \div avg.den
             r == n % avg.den
             h == IF 2 * r > avg.den \/ (2 * r = avg.den /\ q % 2 = 1)
                  THEN q + 1 ELSE q
         IN <<h \div 100, ".", (h % 100) \div 10, h % 10>>

RECURSIVE StageLines(_)
StageLines(ts) ==
    IF ts = <<>> THEN <<>>
    ELSE <<<<"  - ", Head(ts).stage, ": ", Head(ts).count>>>>
         \o StageLines(Tail(ts))

ReportLines(r) ==
    << <<"\n=== Analysis Results ===">>,
       <<"Total entries analyzed: ", r.total_analyzed>>,
       <<"High-priority signals: ", r.high_priority_count>>,
       <<"Average signal score: ", Fmt2(r.avg_signal_score)>>,
       <<"\nTop checkout stages:">> >>
    \o StageLines(r.top_stages)
    \o << <<"\n=== Claude Analysis ===">>, r.summary >>

UsageLine == <<"Usage: python analyzer.py <path_to_feedback.csv>">>
BannerLine(path) == <<"Analyzing feedback from: ", path>>

----------------------------------------------------------------------------
(* Failure: an uncaught exception ends the process with a traceback *)

Crash(exc, step) ==
    /\ pc' = "crashed"
    /\ error' = exc
    /\ errorAt' = step
    /\ exitStatus' = 1

----------------------------------------------------------------------------
(* Initial states *)

\* env_key: the value of ANTHROPIC_API_KEY in the environment, if any.
\* clientValidatesAt: where the client library rejects a missing credential,
\* when anthropic.Anthropic(...) is constructed or when a request is made;
\* analyzer.py does not check the credential itself.

InitCommon ==
    /\ pc = "start"
    /\ env_key \in {NoKey, "sk-env"}
    /\ clientValidatesAt \in {"init", "request"}
    /\ csv_path = NoKey
    /\ client = NoKey
    /\ df = NoDf
    /\ feedback_text = <<>>
    /\ apiCalls = 0
    /\ sentPayload = <<>>
    /\ analysis = <<>>
    /\ results = NoResults
    /\ stdout = <<>>
    /\ error = "none"
    /\ errorAt = "none"
    /\ exitStatus = 0 - 1

Init ==
    /\ InitCommon
    /\ argv \in {<<"analyzer.py">>, <<"analyzer.py", "feedback.csv">>}

----------------------------------------------------------------------------
(* Actions *)

\* lines 88-90
MainUsage ==
    /\ pc = "start"
    /\ Len(argv) < 2
    /\ stdout' = Append(stdout, UsageLine)
    /\ pc' = "exited"
    /\ exitStatus' = 1
    /\ UNCHANGED <<argv, env_key, clientValidatesAt, csv_path, client, df,
                   feedback_text, apiCalls, sentPayload, analysis, results,
                   error, errorAt>>

MainBanner_PrintsHeading ==
    /\ pc = "start"
    /\ ~(Len(argv) < 2)
    /\ csv_path' = argv[2]
    /\ stdout' = <<BannerLine(argv[2]), <<"\n=== Analysis Results ===">>>>
    /\ pc' = "init"
    /\ UNCHANGED <<argv, env_key, clientValidatesAt, client, df,
                   feedback_text, apiCalls, sentPayload, analysis, results,
                   error, errorAt, exitStatus>>

\* lines 92-94
MainBanner ==
    /\ pc = "start"
    /\ ~(Len(argv) < 2)
    /\ csv_path' = argv[2]
    /\ stdout' = Append(stdout, BannerLine(argv[2]))
    /\ pc' = "init"
    /\ UNCHANGED <<argv, env_key, clientValidatesAt, client, df,
                   feedback_text, apiCalls, sentPayload, analysis, results,
                   error, errorAt, exitStatus>>

ResolveKey_Fallback(api_key) ==
    IF api_key # NoKey THEN api_key
    ELSE IF env_key # NoKey THEN env_key ELSE "sk-default"

\* api_key or os.environ.get("ANTHROPIC_API_KEY")
ResolveKey(api_key) == IF api_key # NoKey THEN api_key ELSE env_key

\* lines 14-18 (called from line 96)
AnalyzerInit(api_key) ==
    /\ pc = "init"
    /\ IF ResolveKey(api_key) = NoKey /\ clientValidatesAt = "init"
       THEN /\ Crash("CredentialError", "init")
            /\ UNCHANGED client
       ELSE /\ client' = ResolveKey(api_key)
            /\ pc' = "load"
            /\ UNCHANGED <<error, errorAt, exitStatus>>
    /\ UNCHANGED <<argv, env_key, clientValidatesAt, csv_path, df,
                   feedback_text, apiCalls, sentPayload, analysis, results,
                   stdout>>

\* line 26: pd.read_csv(csv_path)
LoadCsv(colSets, stageSet, scoreSet, maxRows) ==
    /\ pc = "load"
    /\ \/ \E exc \in {"FileNotFoundError", "ParserError"} :
            /\ Crash(exc, "load")
            /\ UNCHANGED df
       \/ \E cols \in colSets, k \in 0..maxRows :
          \E st \in [1..k -> stageSet], sc \in [1..k -> scoreSet] :
            /\ df' = [loaded |-> TRUE, columns |-> cols,
                      rows |-> MkRows(st, sc)]
            /\ pc' = "prepare"
            /\ UNCHANGED <<error, errorAt, exitStatus>>
    /\ UNCHANGED <<argv, env_key, clientValidatesAt, csv_path, client,
                   feedback_text, apiCalls, sentPayload, analysis, results,
                   stdout>>

\* lines 29, 39-48
PrepareFeedback ==
    /\ pc = "prepare"
    /\ IF "signal_score" \notin df.columns
       THEN /\ Crash("KeyError", "prepare")
            /\ UNCHANGED feedback_text
       ELSE IF /\ HighSignal(df.rows) # <<>>
               /\ ~({"checkout_stage", "feedback_text"} \subseteq df.columns)
       THEN /\ Crash("KeyError", "prepare")
            /\ UNCHANGED feedback_text
       ELSE /\ feedback_text' = PrepareFeedbackText(df.rows)
            /\ pc' = "call"
            /\ UNCHANGED <<error, errorAt, exitStatus>>
    /\ UNCHANGED <<argv, env_key, clientValidatesAt, csv_path, client, df,
                   apiCalls, sentPayload, analysis, results, stdout>>

OkResponse == <<"THEMES: ...", "URGENT ISSUES: ...", "UX FRICTION: ...">>
ServiceErrors == {"APIConnectionError", "AuthenticationError", "IndexError"}

\* a failed call is tried again
CallClaudeApi_Retry ==
    /\ pc = "call"
    /\ client # NoKey
    /\ apiCalls < 2
    /\ apiCalls' = apiCalls + 1
    /\ sentPayload' = feedback_text
    /\ \/ /\ analysis' = OkResponse
          /\ pc' = "extract"
          /\ UNCHANGED <<error, errorAt, exitStatus>>
       \/ /\ apiCalls = 0
          /\ UNCHANGED <<pc, analysis, error, errorAt, exitStatus>>
       \/ \E exc \in ServiceErrors :
          /\ apiCalls = 1
          /\ Crash(exc, "call")
          /\ UNCHANGED analysis
    /\ UNCHANGED <<argv, env_key, clientValidatesAt, csv_path, client, df,
                   feedback_text, results, stdout>>

\* the call is skipped when nothing was selected
CallClaudeApi_SkipEmpty ==
    /\ pc = "call"
    /\ client # NoKey
    /\ IF feedback_text = <<Header>>
       THEN /\ analysis' = <<>>
            /\ pc' = "extract"
            /\ UNCHANGED <<apiCalls, sentPayload, error, errorAt, exitStatus>>
       ELSE /\ apiCalls' = apiCalls + 1
            /\ sentPayload' = feedback_text
            /\ \/ /\ analysis' = OkResponse
                  /\ pc' = "extract"
                  /\ UNCHANGED <<error, errorAt, exitStatus>>
               \/ \E exc \in ServiceErrors :
                  /\ Crash(exc, "call")
                  /\ UNCHANGED analysis
    /\ UNCHANGED <<argv, env_key, clientValidatesAt, csv_path, client, df,
                   feedback_text, results, stdout>>

\* lines 32, 50-72
CallClaudeApi ==
    /\ pc = "call"
    /\ IF client = NoKey
       THEN /\ Crash("CredentialError", "call")
            /\ UNCHANGED <<apiCalls, sentPayload, analysis>>
       ELSE /\ apiCalls' = apiCalls + 1
            /\ sentPayload' = feedback_text
            /\ \/ /\ analysis' = OkResponse
                  /\ pc' = "extract"
                  /\ UNCHANGED <<error, errorAt, exitStatus>>
               \/ \E exc \in ServiceErrors :
                  /\ Crash(exc, "call")
                  /\ UNCHANGED analysis
    /\ UNCHANGED <<argv, env_key, clientValidatesAt, csv_path, client, df,
                   feedback_text, results, stdout>>

\* lines 35, 74-82
ExtractSignals ==
    /\ pc = "extract"
    /\ IF "checkout_stage" \notin df.columns
       THEN /\ Crash("KeyError", "extract")
            /\ UNCHANGED results
       ELSE /\ results' =
                 [set |-> TRUE,
                  summary |-> analysis,
                  high_priority_count |-> HighPriorityCount(df.rows),
                  total_analyzed |-> TotalAnalyzed(df.rows),
                  top_stages |-> TopStages(df.rows),
                  avg_signal_score |-> MeanScore(df.rows)]
            /\ pc' = "report"
            /\ UNCHANGED <<error, errorAt, exitStatus>>
    /\ UNCHANGED <<argv, env_key, clientValidatesAt, csv_path, client, df,
                   feedback_text, apiCalls, sentPayload, analysis, stdout>>

\* lines 99-107
PrintReport ==
    /\ pc = "report"
    /\ stdout' = stdout \o ReportLines(results)
    /\ pc' = "done"
    /\ exitStatus' = 0
    /\ UNCHANGED <<argv, env_key, clientValidatesAt, csv_path, client, df,
                   feedback_text, apiCalls, sentPayload, analysis, results,
                   error, errorAt>>

Next ==
    \/ MainUsage
    \/ MainBanner
    \/ AnalyzerInit(NoKey)
    \/ LoadCsv(SUBSET RequiredColumns, Stages, Scores, MaxRows)
    \/ PrepareFeedback
    \/ CallClaudeApi
    \/ ExtractSignals
    \/ PrintReport

Spec == Init /\ [][Next]_vars

\* The same pipeline on wider tables (enough rows and stage values for the
\* head(3) cut to drop entries), started with a path and a credential.
InitStages ==
    /\ InitCommon
    /\ argv = <<"analyzer.py", "feedback.csv">>
    /\ env_key = "sk-env"
    /\ clientValidatesAt = "request"

NextStages ==
    \/ MainBanner
    \/ AnalyzerInit(NoKey)
    \/ LoadCsv({RequiredColumns}, StageOnlyStages, StageOnlyScores,
               MaxStageRows)
    \/ PrepareFeedback
    \/ CallClaudeApi
    \/ ExtractSignals
    \/ PrintReport

SpecStages == InitStages /\ [][NextStages]_vars

----------------------------------------------------------------------------
(* Vocabulary of the properties *)

Rows == df.rows
RowIdx == 1..Len(Rows)

\* rows whose score cell holds a number
ScoredIdx == {i \in RowIdx : Rows[i].signal_score # NaNScore}

\* rows whose score is strictly greater than 7.0
HighIdx == {i \in ScoredIdx : Rows[i].signal_score > Threshold}

RECURSIVE SumOver(_)
SumOver(S) ==
    IF S = {} THEN 0
    ELSE LET i == CHOOSE j \in S : TRUE
         IN Rows[i].signal_score + SumOver(S \ {i})

NaNMean == [num |-> 0, den |-> 0]

\* the k-th selected row, counting in table order
KthHigh(k) == CHOOSE i \in HighIdx : Cardinality({j \in HighIdx : j < i}) = k - 1

ExpectedLine(row) ==
    <<"[", IF row.checkout_stage = NaNStage THEN "nan" ELSE row.checkout_stage,
      "] ", row.feedback_text, " (score: ",
      <<row.signal_score \div 10, ".", row.signal_score % 10>>, ")", "\n">>

StageValues == {Rows[i].checkout_stage : i \in RowIdx} \ {NaNStage}
Occurrences(st) == Cardinality({i \in RowIdx : Rows[i].checkout_stage = st})
FirstSeen(st) == CHOOSE i \in RowIdx :
                    /\ Rows[i].checkout_stage = st
                    /\ \A j \in 1..(i - 1) : Rows[j].checkout_stage # st

\* st ranks before other: more occurrences, or as many and seen first
RanksBefore(st, other) ==
    \/ Occurrences(st) > Occurrences(other)
    \/ /\ Occurrences(st) = Occurrences(other)
       /\ FirstSeen(st) < FirstSeen(other)

----------------------------------------------------------------------------
(* C1 *)

\* C1 (as stated): avg_signal_score is the arithmetic mean of the
\* signal_score of all rows of the table.  A row without a score makes the
\* mean over all rows NaN.
C1_AvgIsMeanOfAllRows ==
    results.set =>
        results.avg_signal_score =
            IF Rows = <<>> \/ ScoredIdx # RowIdx THEN NaNMean
            ELSE [num |-> SumOver(RowIdx), den |-> Len(Rows)]

\* C1 (amended): avg_signal_score is the arithmetic mean of the signal_score
\* of every row that has a score, whether or not it is above 7.0; rows with
\* a missing score are skipped, and the result is NaN when no row has one.
C1_AvgIsMeanOfScoredRows ==
    results.set =>
        results.avg_signal_score =
            IF ScoredIdx = {} THEN NaNMean
            ELSE [num |-> SumOver(ScoredIdx), den |-> Cardinality(ScoredIdx)]

C1_Witness ==
    /\ results.set
    /\ HighIdx # {}
    /\ ScoredIdx \ HighIdx # {}
    /\ results.avg_signal_score.den = Cardinality(ScoredIdx)
    /\ results.avg_signal_score.num > SumOver(HighIdx)

----------------------------------------------------------------------------
(* C2 *)

\* C2: total_analyzed is the number of rows, high_priority_count is the
\* number of rows with a score strictly above 7.0, and
\* high_priority_count <= total_analyzed.
C2_HighPriorityAtMostTotal ==
    results.set =>
        /\ results.total_analyzed = Len(Rows)
        /\ results.high_priority_count = Cardinality(HighIdx)
        /\ results.high_priority_count <= results.total_analyzed

C2_Witness ==
    /\ results.set
    /\ results.total_analyzed = 2
    /\ results.high_priority_count = 1

----------------------------------------------------------------------------
(* C3 *)

\* C3: the formatted block is the header followed by exactly one line per
\* row with a score strictly above 7.0 (7.0 itself excluded), in table
\* order, each line being "[stage] text (score: score)".
C3_FormattedBlockIsHeaderPlusSelectedRows ==
    feedback_text # <<>> =>
        /\ feedback_text[1] = Header
        /\ Len(feedback_text) = 1 + Cardinality(HighIdx)
        /\ \A k \in 1..Cardinality(HighIdx) :
              feedback_text[k + 1] = ExpectedLine(Rows[KthHigh(k)])

C3_Witness ==
    /\ pc = "call"
    /\ Len(Rows) = 2
    /\ Rows[1].signal_score = Threshold
    /\ Rows[2].signal_score > Threshold
    /\ feedback_text = <<Header, ExpectedLine(Rows[2])>>

----------------------------------------------------------------------------
(* C4 *)

\* C4: when a required column is absent from the input table, the
\* invocation ends at the load step, with no network call made, whatever
\* the rows are.
C4_MissingColumnFailsAtLoad ==
    (/\ df.loaded
     /\ ~(RequiredColumns \subseteq df.columns)
     /\ pc \in {"crashed", "done"})
    => (pc = "crashed" /\ errorAt = "load" /\ apiCalls = 0)

----------------------------------------------------------------------------
(* C5 *)

\* C5 (as stated): when the invocation fails, no output line has been
\* printed.
C5_NothingPrintedOnFailure ==
    pc = "crashed" => stdout = <<>>

\* C5 (amended): when the invocation fails, the only line printed is the
\* progress line "Analyzing feedback from: <path>" and no line of the report;
\* when it succeeds, that line is followed by the full report.
C5_OnlyBannerPrintedOnFailure ==
    /\ pc = "crashed" => stdout = <<BannerLine(csv_path)>>
    /\ pc \in {"init", "load", "prepare", "call", "extract", "report"}
          => stdout = <<BannerLine(csv_path)>>
    /\ pc = "done" =>
          /\ Len(stdout) = 8 + Len(results.top_stages)
          /\ stdout[1] = BannerLine(csv_path)
          /\ stdout[2] = <<"\n=== Analysis Results ===">>
          /\ stdout[Len(stdout)] = results.summary

C5_Witness ==
    /\ pc = "crashed"
    /\ errorAt = "extract"
    /\ apiCalls = 1
    /\ stdout = <<BannerLine(csv_path)>>

----------------------------------------------------------------------------
(* C6 *)

\* C6: at most one call to the remote service is made per invocation; once
\* that call has failed, no second call is made, the error is not recovered,
\* and the invocation ends without printing the report.
C6_AtMostOneRemoteCall ==
    /\ apiCalls <= 1
    /\ error \in ServiceErrors =>
          /\ pc = "crashed"
          /\ errorAt = "call"
          /\ apiCalls = 1
          /\ ~results.set
          /\ stdout = <<BannerLine(csv_path)>>

C6_Witness ==
    /\ error = "APIConnectionError"
    /\ pc = "crashed"
    /\ apiCalls = 1
    /\ sentPayload = feedback_text

----------------------------------------------------------------------------
(* C7 *)

\* C7: when no row scores above 7.0, the formatted block is the header
\* alone, and the remote call is still made, exactly once, with that block
\* as its payload.
C7_EmptySelectionStillCalls ==
    HighIdx = {} =>
        /\ pc = "call" => feedback_text = <<Header>>
        /\ pc \in {"extract", "report", "done"} =>
              /\ apiCalls = 1
              /\ sentPayload = <<Header>>

C7_Witness ==
    /\ pc = "extract"
    /\ Len(Rows) = 2
    /\ HighIdx = {}
    /\ apiCalls = 1
    /\ sentPayload = <<Header>>

----------------------------------------------------------------------------
(* C8 *)

\* C8 (as stated): with no credential passed and none in the environment,
\* the invocation ends with a credential error at analyzer initialization,
\* before the file is loaded and before any network call.
C8_NoCredentialFailsAtInit ==
    (env_key = NoKey /\ pc \notin {"start", "init", "exited"}) =>
        /\ pc = "crashed"
        /\ error = "CredentialError"
        /\ errorAt = "init"
        /\ ~df.loaded
        /\ apiCalls = 0

\* C8 (amended): with no credential passed and none in the environment, no
\* remote request is ever issued and no result is produced.  The credential
\* is resolved at initialization, which runs before the file is loaded.  If
\* the client rejects a missing credential when it is constructed, the
\* invocation ends there, before loading; if it checks only when a request
\* is made, the file is loaded and formatted first and the credential error
\* is raised at the remote-call step, before any request goes out.
C8_NoCredentialNeverCalls ==
    /\ df.loaded => pc \notin {"start", "init", "exited"}
    /\ env_key = NoKey =>
          /\ client = NoKey
          /\ apiCalls = 0
          /\ ~results.set
          /\ pc \notin {"extract", "report", "done"}
          /\ (clientValidatesAt = "init" /\ pc \notin {"start", "init", "exited"})
                => (/\ pc = "crashed"
                    /\ error = "CredentialError"
                    /\ errorAt = "init"
                    /\ ~df.loaded)
          /\ (clientValidatesAt = "request" /\ error = "CredentialError")
                => (/\ pc = "crashed"
                    /\ errorAt = "call"
                    /\ df.loaded
                    /\ feedback_text # <<>>)

C8_Witness ==
    /\ env_key = NoKey
    /\ pc = "crashed"
    /\ error = "CredentialError"
    /\ errorAt = "call"
    /\ df.loaded
    /\ apiCalls = 0

----------------------------------------------------------------------------
(* C9 *)

----------------------------------------------------------------------------
(* C10 *)

\* C10: when analyze_batch succeeds, the number of feedback lines in the
\* payload sent to the remote service equals high_priority_count.
C10_PayloadLinesEqualHighPriorityCount ==
    results.set =>
        /\ apiCalls = 1
        /\ sentPayload = feedback_text
        /\ Len(sentPayload) - 1 = results.high_priority_count

C10_Witness ==
    /\ results.set
    /\ Len(Rows) = 2
    /\ \E i \in RowIdx : Rows[i].signal_score = Threshold
    /\ results.high_priority_count = 1
    /\ Len(sentPayload) = 2

====
